---- MODULE Spec2Model ----
(***************************************************************************)
(* The resumable batch pipeline of src/Data-collection-pipeline.py:        *)
(* PDFDataExtractionPipeline (rename pass, discovery, per-document         *)
(* extraction, checkpointing, relocation, aggregation) as a state machine. *)
(* One pipeline instance lives for one run; the folder, the checkpoint     *)
(* file and the output artifacts survive the process.                      *)
(***************************************************************************)
EXTENDS Integers, Sequences, FiniteSets, TLC

\* ---------------------------------------------------------------- bounds
NumDocs == 2        \* documents in the target folder
NumTitles == 1      \* distinct titles a document's content can carry
MaxRuns == 2        \* pipeline processes started one after the other
MaxRecords == 1     \* records in a well-formed reply: 1..MaxRecords
WaitMod == 2        \* the seconds slept in the polling loop are kept modulo WaitMod

Docs == 1..NumDocs
Titles == 1..NumTitles

\* ----------------------------------------------------------------- names
\* A file name.  form "raw": the name the user gave the file (title = the
\* document's number); form "doi": "{doi} - {title}.pdf"; form "nodoi":
\* "NO_DOI - {title}.pdf"; n > 1 is the " (n)" disambiguator.
NoName == [form |-> "none", doi |-> 0, title |-> 0, n |-> 0]
RawName(d) == [form |-> "raw", doi |-> 0, title |-> d, n |-> 1]

\* extract_doi_and_title + clean_filename + the f-strings of the rename pass:
\* the name built from a document's content (doi = 0: no DOI found).
NewName(c) ==
    IF c.doi # 0
    THEN [form |-> "doi", doi |-> c.doi, title |-> c.title, n |-> 1]
    ELSE [form |-> "nodoi", doi |-> 0, title |-> c.title, n |-> 1]

\* re.match(r"^10\.\d{4,9}", original_name): only a DOI-prefixed name is
\* recognised as already standardized.
IsStandardized(name) == name.form = "doi"

\* get_unique_path: the candidate if free, else the first free " (counter)",
\* counter = 2, 3, ...
RECURSIVE UniqueFrom(_, _, _)
UniqueFrom(base, counter, existing) ==
    IF [base EXCEPT !.n = counter] \notin existing
    THEN [base EXCEPT !.n = counter]
    ELSE UniqueFrom(base, counter + 1, existing)

\* (mutant) the candidate is returned without looking at the directory.
get_unique_path_unchecked(path, existing) == path

\* (mutant) the counter starts one too high.
get_unique_path_skipping(path, existing) ==
    IF path \notin existing THEN path ELSE UniqueFrom(path, 3, existing)

get_unique_path(path, existing) ==
    IF path \notin existing THEN path ELSE UniqueFrom(path, 2, existing)

\* The order sorted() puts names in (string comparison): "10...." before
\* "NO_DOI ..." before the users' names; "X (2).pdf" before "X (3).pdf"
\* before "X.pdf" (' ' sorts before '.').
FormRank(f) == CASE f = "doi" -> 1 [] f = "nodoi" -> 2 [] OTHER -> 3
SuffixRank(n) == IF n = 1 THEN NumDocs + 3 ELSE n
NameKey(a) == <<FormRank(a.form), a.doi, a.title, SuffixRank(a.n)>>

RECURSIVE LexLess(_, _)
LexLess(s, t) ==
    IF s = <<>> \/ t = <<>> THEN s = <<>> /\ t # <<>>
    ELSE IF Head(s) # Head(t) THEN Head(s) < Head(t)
    ELSE LexLess(Tail(s), Tail(t))

NameLess(a, b) == LexLess(NameKey(a), NameKey(b))

RECURSIVE Insert(_, _)
Insert(s, x) ==
    IF s = <<>> THEN <<x>>
    ELSE IF NameLess(x, Head(s)) THEN <<x>> \o s
    ELSE <<Head(s)>> \o Insert(Tail(s), x)

RECURSIVE Sorted(_)
Sorted(list) ==
    IF list = <<>> THEN <<>> ELSE Insert(Sorted(Tail(list)), Head(list))

\* Every order in which glob() may list a set of names.
RECURSIVE Listings(_)
Listings(S) ==
    IF S = {} THEN {<<>>}
    ELSE UNION {{<<x>> \o l : l \in Listings(S \ {x})} : x \in S}

SeqSet(s) == {s[i] : i \in 1..Len(s)}


\* ----------------------------------------------------------------- state
VARIABLES
    content,      \* document -> what extract_doi_and_title finds in it
    loc,          \* document -> "input" | "processed" | "gone" (the folder it is in)
                  \*   | "outside" (not yet put in the target folder)
    fname,        \* document -> its current file name
    ckptFile,     \* pipeline_checkpoint.json on disk
    outFiles,     \* names whose per-document artifact output/{stem}.json exists
    combined,     \* output/combined_data.json on disk
    pc,           \* where the pipeline process is
    checkpoint,   \* self.checkpoint
    rename_pdfs,  \* self.rename_pdfs (and PyMuPDF importable)
    max_papers,   \* run()'s argument: <<>> is None, <<k>> the integer k
    pdf_files,    \* rename pass: the listed names not yet visited
    to_process,   \* run(): the candidate list
    idx,          \* position of the loop over to_process
    svc,          \* uploaded_file.state.name
    waited,       \* seconds slept in the polling loop, modulo WaitMod
    reply,        \* response.text
    data,         \* records process_pdf returned for the current document
    all_data,     \* run(): the aggregate of this run
    err,          \* the exception process_pdf caught: "service" (raised by a
                  \*   genai call) or "output" (raised on the reply's content)
    runs,         \* processes started so far
    submitted,    \* history: documents uploaded in this run, in order
    failedNow,    \* history: documents that got a failure record in this run
    extracted,    \* history: names process_pdf returned records for in this run
    listed,       \* history: documents in the input folder at this run's discovery
    candDocs,     \* history: documents of this run's filtered list, before the limit
    resume,       \* history: the document whose checkpoint write was the last
                  \*   thing a killed run did, when that was its first document
    last,         \* history: how the previous run ended, and what it left
    yielded,      \* history: <<name, count>> of every non-empty result
                  \*   process_pdf returned in this run, in order
    unmoved,      \* history: documents whose move to processed_pdfs raised
                  \*   in this run
    call,         \* a function called on its own: its name and arguments
    ret           \* what that call returned

persistent == <<content, loc, fname, ckptFile, outFiles, combined>>
volatile == <<pc, checkpoint, rename_pdfs, max_papers, pdf_files, to_process,
              idx, svc, waited, reply, data, all_data, err>>
history == <<runs, submitted, failedNow, extracted, listed, candDocs,
             resume, last, yielded, unmoved>>
vars == <<persistent, volatile, history, call, ret>>

Contents == [doi : 0..1, title : Titles]

\* _load_checkpoint's default: {'processed': [], 'failed': [], 'stats': {}}.
\* torn is not a field of the file: it says the file holds a partial write.
EmptyCheckpoint ==
    [processed |-> <<>>, failed |-> <<>>, stats |-> <<>>, torn |-> FALSE]
TornFile ==
    [processed |-> <<>>, failed |-> <<>>, stats |-> <<>>, torn |-> TRUE]

\* response.text by what json.loads makes of it: nothing (empty text), an
\* error (unparsable), a number or string (scalar), [] (empty_list), one
\* object (dict), n objects (list), or a list holding a non-object
\* (nondict_list).
NoReply == [shape |-> "none", n |-> 0]
RepliesUpTo(max_records) ==
    {[shape |-> s, n |-> 0] :
        s \in {"empty_text", "unparsable", "scalar", "empty_list"}}
    \cup {[shape |-> "nondict_list", n |-> 1]}
    \cup {[shape |-> "dict", n |-> 1]}
    \cup {[shape |-> "list", n |-> k] : k \in 1..max_records}
Replies == RepliesUpTo(MaxRecords)

NoLast == [end |-> "none", rename |-> FALSE, failed |-> {}, resume |-> 0,
           allProcessed |-> FALSE, stdOnly |-> FALSE, combined |-> <<>>]

NoCall == [fn |-> "none"]

\* The names in the input folder: self.input_dir.glob("*.pdf").
InputNames == {fname[d] : d \in {e \in Docs : loc[e] = "input"}}
DocAt(name) == CHOOSE d \in Docs : loc[d] = "input" /\ fname[d] = name

\* Before the first process is started: the folder holds the users' files,
\* there is no checkpoint file and no artifact.
UnstartedIn(folder) ==
    /\ loc = folder
    /\ fname = [d \in Docs |-> RawName(d)]
    /\ ckptFile = EmptyCheckpoint
    /\ outFiles = {}
    /\ combined = <<>>
    /\ pc = "idle"
    /\ checkpoint = EmptyCheckpoint
    /\ rename_pdfs = FALSE
    /\ max_papers = <<>>
    /\ pdf_files = {}
    /\ to_process = <<>>
    /\ idx = 0
    /\ svc = "none"
    /\ waited = 0
    /\ reply = NoReply
    /\ data = 0
    /\ all_data = <<>>
    /\ err = "none"
    /\ runs = 0
    /\ submitted = <<>>
    /\ failedNow = {}
    /\ extracted = {}
    /\ listed = {}
    /\ candDocs = {}
    /\ resume = 0
    /\ last = NoLast
    /\ yielded = <<>>
    /\ unmoved = {}

Unstarted == UnstartedIn([d \in Docs |-> "input"])

Init ==
    /\ content \in [Docs -> Contents]
    /\ Unstarted
    /\ call = NoCall
    /\ ret = NoCall


\* ------------------------------------------------------- checkpoint store
\* (mutant) the membership test looks in the wrong list.
IsInFailed(ck, pdf_name) ==
    \E i \in 1..Len(ck.failed) : ck.failed[i].pdf = pdf_name

_is_processed(ck, pdf_name) == pdf_name \in SeqSet(ck.processed)

\* (mutant) the candidate list is not filtered by the checkpoint.
Unfiltered(ck, all_pdfs) == all_pdfs

\* run(): to_process = [p for p in all_pdfs if not self._is_processed(p.name)]
Unprocessed(ck, all_pdfs) ==
    SelectSeq(all_pdfs, LAMBDA n : ~_is_processed(ck, n))

\* (mutant) the name is appended without the membership test.
MarkProcessedAlways(ck, pdf_name, num_records) ==
    [ck EXCEPT
        !.processed = Append(@, pdf_name),
        !.stats = [n \in (DOMAIN @) \cup {pdf_name} |->
                      IF n = pdf_name THEN num_records ELSE @[n]]]

\* _mark_processed before its _save_checkpoint.
MarkProcessedValue(ck, pdf_name, num_records) ==
    [ck EXCEPT
        !.processed = IF pdf_name \in SeqSet(@) THEN @ ELSE Append(@, pdf_name),
        !.stats = [n \in (DOMAIN @) \cup {pdf_name} |->
                      IF n = pdf_name THEN num_records ELSE @[n]]]

\* (mutant) a document keeps one failure record, its latest.
MarkFailedOnce(ck, pdf_name, error) ==
    [ck EXCEPT !.failed =
        Append(SelectSeq(@, LAMBDA r : r.pdf # pdf_name),
               [pdf |-> pdf_name, error |-> error])]

\* (mutant) a failed document is put in processed as well.
MarkFailedAsProcessed(ck, pdf_name, error) ==
    [ck EXCEPT !.failed = Append(@, [pdf |-> pdf_name, error |-> error]),
               !.processed = Append(@, pdf_name)]

\* _mark_failed before its _save_checkpoint.
MarkFailedValue(ck, pdf_name, error) ==
    [ck EXCEPT !.failed = Append(@, [pdf |-> pdf_name, error |-> error])]

\* _save_checkpoint, completed: the file is rewritten with the whole state.
SavedFile(ck) == ck

\* to_process[:max_papers]
Slice(s, k) ==
    IF k >= 0 THEN SubSeq(s, 1, IF k < Len(s) THEN k ELSE Len(s))
    ELSE SubSeq(s, 1, IF Len(s) + k > 0 THEN Len(s) + k ELSE 0)

\* "if max_papers:": None and 0 are both false.
Truthy(limit) == limit # <<>> /\ limit[1] # 0

\* The records process_pdf returns for a document: its name is their source_pdf.
Records(name, k) == [i \in 1..k |-> <<name, i>>]

\* ------------------------------------------------------------ the process
EndPcs == {"idle", "done", "aborted", "crashed", "unloadable"}
\* max_papers as given on the command line: absent (None), or a count.
LimitValues == {<<>>, <<1>>}

\* What dies with the process (or is dead once run() has returned).
EndReset ==
    /\ checkpoint' = EmptyCheckpoint
    /\ pdf_files' = {}
    /\ idx' = 0
    /\ svc' = "none"
    /\ waited' = 0
    /\ reply' = NoReply
    /\ data' = 0
    /\ all_data' = <<>>
    /\ err' = "none"

\* The loop "for pdf_path in to_process" moves on (after time.sleep(1)), or
\* is over.
Advance ==
    /\ idx' = idx + 1
    /\ pc' = IF idx + 1 > Len(to_process) THEN "aggregate" ELSE "upload"
    /\ svc' = "none"
    /\ waited' = 0
    /\ reply' = NoReply
    /\ data' = 0
    /\ err' = "none"

\* main(): a new process builds the pipeline (__init__ loads the checkpoint)
\* and calls run(max_papers).  A checkpoint file holding a partial write makes
\* json.load raise inside __init__.
StartRunWith(limits, max_runs) ==
    /\ pc \in EndPcs
    /\ runs < max_runs
    /\ runs' = runs + 1
    /\ last' = [end |-> pc, rename |-> rename_pdfs, failed |-> failedNow,
                resume |-> resume,
                allProcessed |-> InputNames \subseteq SeqSet(ckptFile.processed),
                stdOnly |-> \A n \in InputNames : IsStandardized(n),
                combined |-> combined]
    /\ submitted' = <<>>
    /\ failedNow' = {}
    /\ extracted' = {}
    /\ listed' = {}
    /\ candDocs' = {}
    /\ resume' = 0
    /\ yielded' = <<>>
    /\ unmoved' = {}
    /\ to_process' = <<>>
    /\ idx' = 0
    /\ UNCHANGED <<call, ret, persistent, svc, waited, reply, data, all_data, err>>
    /\ IF ckptFile.torn
       THEN /\ pc' = "unloadable"
            /\ UNCHANGED <<checkpoint, rename_pdfs, max_papers, pdf_files>>
       ELSE /\ checkpoint' = ckptFile
            /\ \E r \in BOOLEAN, m \in limits :
                 /\ rename_pdfs' = r
                 /\ max_papers' = m
                 /\ pdf_files' = IF r THEN InputNames ELSE {}
                 /\ pc' = IF r /\ InputNames # {} THEN "rename" ELSE "discover"

StartRun == StartRunWith(LimitValues, MaxRuns)

\* rename_input_pdfs: one turn of its loop over the listed files, in the
\* order glob() gave them.  Path.rename is taken to succeed (a failure is
\* swallowed and leaves the file under its old name, as a kill in the middle
\* of the pass does).  The rename log is written and never read: not kept.
RenameOne ==
    /\ pc = "rename"
    /\ \E original_name \in pdf_files :
         /\ pdf_files' = pdf_files \ {original_name}
         /\ pc' = IF pdf_files' = {} THEN "discover" ELSE "rename"
         /\ IF IsStandardized(original_name)
            THEN UNCHANGED fname
            ELSE LET d == DocAt(original_name)
                     new_path == get_unique_path(NewName(content[d]), InputNames)
                 IN  fname' = [fname EXCEPT ![d] = new_path]
    /\ UNCHANGED <<call, ret, content, loc, ckptFile, outFiles, combined, checkpoint,
                   rename_pdfs, max_papers, to_process, idx, svc, waited,
                   reply, data, all_data, err, history>>

\* run(): list, sort, filter by the checkpoint, apply the limit.
Discover ==
    /\ pc = "discover"
    /\ \E listing \in Listings(InputNames) :
         LET all_pdfs == Sorted(listing)
             unprocessed == Unprocessed(checkpoint, all_pdfs)
             limited == IF Truthy(max_papers)
                        THEN Slice(unprocessed, max_papers[1])
                        ELSE unprocessed
         IN  /\ listed' = {DocAt(n) : n \in InputNames}
             /\ candDocs' = {DocAt(n) : n \in SeqSet(unprocessed)}
             /\ IF unprocessed = <<>>
                THEN /\ pc' = "done"
                     /\ to_process' = <<>>
                     /\ idx' = 0
                ELSE /\ to_process' = limited
                     /\ idx' = 1
                     /\ pc' = IF limited = <<>> THEN "aggregate" ELSE "upload"
    /\ all_data' = <<>>
    /\ UNCHANGED <<call, ret, persistent, checkpoint, rename_pdfs, max_papers, pdf_files,
                   svc, waited, reply, data, err, runs, submitted, failedNow,
                   extracted, resume, last, yielded, unmoved>>


Current == to_process[idx]

\* process_pdf's "if not pdf_path.exists(): return None", then
\* genai.upload_file in _process_with_gemini: it raises, or returns the
\* uploaded file in some state.
Upload ==
    /\ pc = "upload"
    /\ IF Current \notin InputNames
       THEN /\ Advance
            /\ UNCHANGED submitted
       ELSE /\ submitted' = Append(submitted, DocAt(Current))
            /\ \E st \in {"raise", "PROCESSING", "ACTIVE", "FAILED"} :
                 IF st = "raise"
                 THEN /\ pc' = "except"
                      /\ err' = "service"
                      /\ UNCHANGED svc
                 ELSE /\ pc' = "poll"
                      /\ svc' = st
                      /\ UNCHANGED err
            /\ UNCHANGED <<idx, waited, reply, data>>
    /\ UNCHANGED <<call, ret, persistent, checkpoint, rename_pdfs, max_papers, pdf_files,
                   to_process, all_data, runs, failedNow, extracted, listed,
                   candDocs, resume, last, yielded, unmoved>>

\* while uploaded_file.state.name == "PROCESSING": time.sleep(1);
\* uploaded_file = genai.get_file(...).  Nothing else ends the loop.
PollWait ==
    /\ pc = "poll"
    /\ svc = "PROCESSING"
    /\ waited' = (waited + 1) % WaitMod
    /\ \E st \in {"raise", "PROCESSING", "ACTIVE", "FAILED"} :
         IF st = "raise"
         THEN /\ pc' = "except"
              /\ err' = "service"
              /\ UNCHANGED svc
         ELSE /\ svc' = st
              /\ UNCHANGED <<pc, err>>
    /\ UNCHANGED <<call, ret, persistent, checkpoint, rename_pdfs, max_papers, pdf_files,
                   to_process, idx, reply, data, all_data, history>>

\* (mutant) the state FAILED is not tested after the loop.
PollExitUntested ==
    /\ pc = "poll"
    /\ svc # "PROCESSING"
    /\ pc' = "generate"
    /\ UNCHANGED <<call, ret, persistent, checkpoint, rename_pdfs, max_papers,
                   pdf_files, to_process, idx, svc, waited, reply, data,
                   all_data, err, history>>

\* The loop is left: FAILED raises, any other state goes on to generate.
PollExit ==
    /\ pc = "poll"
    /\ svc # "PROCESSING"
    /\ IF svc = "FAILED"
       THEN /\ pc' = "except"
            /\ err' = "service"
       ELSE /\ pc' = "generate"
            /\ UNCHANGED err
    /\ UNCHANGED <<call, ret, persistent, checkpoint, rename_pdfs, max_papers, pdf_files,
                   to_process, idx, svc, waited, reply, data, all_data, history>>

\* self.model.generate_content(..., request_options={"timeout": 300}): it
\* raises (the request timed out, the API refused) or returns a reply.
GenerateFrom(replies) ==
    /\ pc = "generate"
    /\ \/ /\ pc' = "except"
          /\ err' = "service"
          /\ UNCHANGED reply
       \/ /\ \E r \in replies : reply' = r
          /\ pc' = "delete"
          /\ UNCHANGED err
    /\ UNCHANGED <<call, ret, persistent, checkpoint, rename_pdfs, max_papers, pdf_files,
                   to_process, idx, svc, waited, data, all_data, history>>

Generate == GenerateFrom(Replies)

\* genai.delete_file(uploaded_file.name), not guarded: when it raises, the
\* exception leaves _process_with_gemini and the reply is dropped.
DeleteFile ==
    /\ pc = "delete"
    /\ \E released \in BOOLEAN :
         IF released
         THEN /\ pc' = "parse"
              /\ UNCHANGED <<reply, err>>
         ELSE /\ pc' = "except"
              /\ err' = "service"
              /\ reply' = NoReply
    /\ UNCHANGED <<call, ret, persistent, checkpoint, rename_pdfs, max_papers, pdf_files,
                   to_process, idx, svc, waited, data, all_data, history>>

\* (mutant) a single object is not wrapped: only a list is accepted.
ParseOutcomeListOnly(r) ==
    CASE r.shape = "list"       -> [error |-> "none", n |-> r.n]
      [] r.shape = "empty_list" -> [error |-> "none", n |-> 0]
      [] OTHER                  -> [error |-> "output", n |-> 0]

\* What the rest of process_pdf's try block makes of a reply: the number of
\* records returned, or the error raised.  A list is taken as it is, and
\* {**metadata, **item} then raises TypeError on an item that is no object.
ParseOutcome(r) ==
    CASE r.shape = "empty_text" -> [error |-> "output", n |-> 0]
      [] r.shape \in {"unparsable", "scalar"} ->
                                   [error |-> "output", n |-> 0]
      [] r.shape = "nondict_list" -> [error |-> "output", n |-> 0]
      [] r.shape = "empty_list" -> [error |-> "none", n |-> 0]
      [] r.shape = "dict"       -> [error |-> "none", n |-> 1]
      [] OTHER                  -> [error |-> "none", n |-> r.n]

\* process_pdf from "if not response_text" to its return, and run()'s
\* "if data:" on what it returned (debug_mode is off, its default).
Parse ==
    /\ pc = "parse"
    /\ LET out == ParseOutcome(reply)
       IN  IF out.error # "none"
           THEN /\ pc' = "except"
                /\ err' = out.error
                /\ UNCHANGED <<idx, svc, waited, reply, data, extracted,
                               yielded>>
           ELSE IF out.n = 0
           THEN /\ Advance
                /\ UNCHANGED <<extracted, yielded>>
           ELSE /\ pc' = "artifact"
                /\ data' = out.n
                /\ extracted' = extracted \cup {Current}
                /\ yielded' = Append(yielded, <<Current, out.n>>)
                /\ UNCHANGED <<idx, svc, waited, reply, err>>
    /\ UNCHANGED <<call, ret, persistent, checkpoint, rename_pdfs, max_papers, pdf_files,
                   to_process, all_data, runs, submitted, failedNow, listed,
                   candDocs, resume, last, unmoved>>

\* process_pdf's except block: _mark_failed (with its save), return None;
\* run() goes to the next document.
MarkFailed ==
    /\ pc = "except"
    /\ checkpoint' = MarkFailedValue(checkpoint, Current, err)
    /\ ckptFile' = SavedFile(checkpoint')
    /\ failedNow' = failedNow \cup {DocAt(Current)}
    /\ Advance
    /\ UNCHANGED <<call, ret, content, loc, fname, outFiles, combined, rename_pdfs,
                   max_papers, pdf_files, to_process, all_data, runs,
                   submitted, extracted, listed, candDocs, resume, last,
                   yielded, unmoved>>

\* run(): all_data.extend(data) and the per-document artifact.  open() and
\* json.dump are not guarded: when they raise, the exception leaves run().
WriteArtifact ==
    /\ pc = "artifact"
    /\ \E written \in BOOLEAN :
         IF written
         THEN /\ outFiles' = outFiles \cup {Current}
              /\ all_data' = all_data \o Records(Current, data)
              /\ pc' = "mark"
              /\ UNCHANGED <<checkpoint, pdf_files, idx, svc, waited, reply,
                             data, err>>
         ELSE /\ pc' = "aborted"
              /\ EndReset
              /\ UNCHANGED outFiles
    /\ UNCHANGED <<call, ret, content, loc, fname, ckptFile, combined, rename_pdfs,
                   max_papers, to_process, history>>

\* _mark_processed, with its save.
MarkProcessed ==
    /\ pc = "mark"
    /\ checkpoint' = MarkProcessedValue(checkpoint, Current, data)
    /\ ckptFile' = SavedFile(checkpoint')
    /\ pc' = "move"
    /\ UNCHANGED <<call, ret, content, loc, fname, outFiles, combined, rename_pdfs,
                   max_papers, pdf_files, to_process, idx, svc, waited, reply,
                   data, all_data, err, history>>

\* (mutant) the move is not guarded: when it raises, run() is left.
MoveOriginalUnguarded ==
    /\ pc = "move"
    /\ LET d == DocAt(Current)
           there == {e \in Docs : loc[e] = "processed" /\ fname[e] = Current}
       IN  \E moved \in BOOLEAN :
              IF moved
              THEN /\ loc' = [e \in Docs |-> IF e = d THEN "processed"
                                              ELSE IF e \in there THEN "gone"
                                              ELSE loc[e]]
                   /\ Advance
                   /\ UNCHANGED <<checkpoint, pdf_files, all_data, unmoved>>
              ELSE /\ unmoved' = unmoved \cup {d}
                   /\ pc' = "aborted"
                   /\ EndReset
                   /\ UNCHANGED loc
    /\ UNCHANGED <<call, ret, content, fname, ckptFile, outFiles, combined,
                   rename_pdfs, max_papers, to_process, runs, submitted,
                   failedNow, extracted, listed, candDocs, resume, last,
                   yielded>>

\* pdf_path.rename(self.processed_dir / pdf_path.name) in try/except: pass.
\* A file of that name already in processed_pdfs is replaced (POSIX) or makes
\* the rename raise (Windows).
MoveOriginal ==
    /\ pc = "move"
    /\ LET d == DocAt(Current)
           there == {e \in Docs : loc[e] = "processed" /\ fname[e] = Current}
       IN  \E moved \in BOOLEAN :
              /\ loc' = IF moved
                        THEN [e \in Docs |-> IF e = d THEN "processed"
                                             ELSE IF e \in there THEN "gone"
                                             ELSE loc[e]]
                        ELSE loc
              /\ unmoved' = IF moved THEN unmoved ELSE unmoved \cup {d}
    /\ Advance
    /\ UNCHANGED <<call, ret, content, fname, ckptFile, outFiles, combined,
                   checkpoint, rename_pdfs, max_papers, pdf_files, to_process,
                   all_data, runs, submitted, failedNow, extracted, listed,
                   candDocs, resume, last, yielded>>

\* run(): "if all_data:" the combined artifact (its open() is not guarded),
\* then the Excel export, whose failure is caught.
Aggregate ==
    /\ pc = "aggregate"
    /\ IF all_data # <<>>
       THEN \E written \in BOOLEAN :
              /\ combined' = IF written THEN all_data ELSE combined
              /\ pc' = IF written THEN "done" ELSE "aborted"
       ELSE /\ pc' = "done"
            /\ UNCHANGED combined
    /\ EndReset
    /\ UNCHANGED <<call, ret, content, loc, fname, ckptFile, outFiles, rename_pdfs,
                   max_papers, to_process, history>>

\* The process is killed between two steps.  resume remembers the kill that
\* comes right after the checkpoint write of the run's first document.
Crash ==
    /\ pc \notin EndPcs
    /\ pc' = "crashed"
    /\ resume' = IF pc = "move" /\ idx = 1 THEN DocAt(Current) ELSE 0
    /\ EndReset
    /\ UNCHANGED <<call, ret, persistent, rename_pdfs, max_papers, to_process, runs,
                   submitted, failedNow, extracted, listed, candDocs, last,
                   yielded, unmoved>>

\* The process is killed inside _save_checkpoint, between open(..., 'w'),
\* which truncates the file, and the end of json.dump.
CrashInSave ==
    /\ pc \in {"except", "mark"}
    /\ ckptFile' = TornFile
    /\ pc' = "crashed"
    /\ EndReset
    /\ UNCHANGED <<call, ret, content, loc, fname, outFiles, combined, rename_pdfs,
                   max_papers, to_process, history>>

Step ==
    \/ RenameOne
    \/ Discover
    \/ Upload
    \/ PollWait
    \/ PollExit
    \/ Generate
    \/ DeleteFile
    \/ Parse
    \/ MarkFailed
    \/ WriteArtifact
    \/ MarkProcessed
    \/ MoveOriginal
    \/ Aggregate

Next == StartRun \/ Step \/ Crash \/ CrashInSave

Spec == Init /\ [][Next]_vars

\* The process, once started, keeps executing until it ends or is killed.
FairSpec == Spec /\ WF_vars(Step)


\* ------------------------------------------- the checkpoint store by itself
\* _mark_processed and _mark_failed called in any order, with any of the
\* names and arguments below, on a pipeline object built without a checkpoint
\* file.  call.seq counts the calls made.
MaxCalls == 4       \* calls made on the store
MaxCount == 2       \* num_records passed to _mark_processed: 1..MaxCount

StoreNames == {RawName(d) : d \in Docs}
SomeContent == [d \in Docs |-> [doi |-> 0, title |-> 1]]
NoStoreCall == [fn |-> "none", pdf_name |-> NoName, arg |-> 0, seq |-> 0]

StoreInit ==
    /\ content = SomeContent
    /\ Unstarted
    /\ call = NoStoreCall
    /\ ret = NoCall

CallMarkProcessed ==
    /\ call.seq < MaxCalls
    /\ \E pdf_name \in StoreNames, num_records \in 1..MaxCount :
         /\ checkpoint' = MarkProcessedValue(checkpoint, pdf_name, num_records)
         /\ call' = [fn |-> "_mark_processed", pdf_name |-> pdf_name,
                     arg |-> num_records, seq |-> call.seq + 1]
    /\ ckptFile' = SavedFile(checkpoint')
    /\ UNCHANGED <<content, loc, fname, outFiles, combined, pc, rename_pdfs,
                   max_papers, pdf_files, to_process, idx, svc, waited, reply,
                   data, all_data, err, history, ret>>

CallMarkFailed ==
    /\ call.seq < MaxCalls
    /\ \E pdf_name \in StoreNames, error \in {"service", "output"} :
         /\ checkpoint' = MarkFailedValue(checkpoint, pdf_name, error)
         /\ call' = [fn |-> "_mark_failed", pdf_name |-> pdf_name,
                     arg |-> error, seq |-> call.seq + 1]
    /\ ckptFile' = SavedFile(checkpoint')
    /\ UNCHANGED <<content, loc, fname, outFiles, combined, pc, rename_pdfs,
                   max_papers, pdf_files, to_process, idx, svc, waited, reply,
                   data, all_data, err, history, ret>>

StoreNext == CallMarkProcessed \/ CallMarkFailed

StoreSpec == StoreInit /\ [][StoreNext]_vars


\* ------------------------------------------- one run, any --max on the line
\* argparse takes any integer for --max (type=int, no range check).
MaxLimit == 2       \* --max values: -1..MaxLimit
WideLimits == {<<>>} \cup {<<k>> : k \in -1..MaxLimit}

StartRunWide == StartRunWith(WideLimits, 1)

LimitNext == StartRunWide \/ Step \/ Crash \/ CrashInSave

LimitSpec == Init /\ [][LimitNext]_vars


\* ------------------------------------ one run, replies of up to 3 records
ScenarioRecords == 3    \* records in a well-formed reply: 1..ScenarioRecords

StartRunOnce == StartRunWith(LimitValues, 1)
GenerateScenario == GenerateFrom(RepliesUpTo(ScenarioRecords))

ScenarioNext ==
    \/ StartRunOnce
    \/ RenameOne
    \/ Discover
    \/ Upload
    \/ PollWait
    \/ PollExit
    \/ GenerateScenario
    \/ DeleteFile
    \/ Parse
    \/ MarkFailed
    \/ WriteArtifact
    \/ MarkProcessed
    \/ MoveOriginal
    \/ Aggregate
    \/ Crash
    \/ CrashInSave

ScenarioSpec == Init /\ [][ScenarioNext]_vars


\* --------------------------------------------------- get_unique_path alone
\* The function called with any candidate the rename pass builds, on a
\* directory holding any set of files named like a candidate, with or
\* without a " (n)".
MaxSuffix == 3      \* the directory's files carry " (n)" for n in 2..MaxSuffix

Candidates == {NewName(c) : c \in Contents}
Directories ==
    SUBSET {[base EXCEPT !.n = k] : base \in Candidates, k \in 1..MaxSuffix}

UniqueInit ==
    /\ content = SomeContent
    /\ Unstarted
    /\ \E path \in Candidates, existing \in Directories :
         call = [fn |-> "get_unique_path", path |-> path,
                 existing |-> existing]
    /\ ret = NoCall

\* The call: it reads the directory (path.exists()) and returns a path.
CallGetUniquePath ==
    /\ ret = NoCall
    /\ ret' = [fn |-> "get_unique_path",
               path |-> get_unique_path(call.path, call.existing),
               existing |-> call.existing]
    /\ UNCHANGED <<persistent, volatile, history, call>>

UniqueNext == CallGetUniquePath

UniqueSpec == UniqueInit /\ [][UniqueNext]_vars


\* ---------------------------------------------------- clean_filename alone
\* A text is a sequence of characters.  "e_acute" is U+00E9, "fw_colon" the
\* fullwidth colon U+FF1A, "acute" the combining accent U+0301, "tab" U+0009.
MaxText == 4        \* characters in the text given to clean_filename
MaxBound == 3       \* max_len given to clean_filename: 0..MaxBound

Alphabet == {"a", " ", "tab", ".", ":", "e_acute", "fw_colon"}
Texts == UNION {[1..n -> Alphabet] : n \in 0..MaxText}

\* unicodedata.normalize("NFKD", text)
NFKD(ch) ==
    CASE ch = "e_acute"  -> <<"e", "acute">>
      [] ch = "fw_colon" -> <<":">>
      [] OTHER           -> <<ch>>

RECURSIVE Normalize(_)
Normalize(text) ==
    IF text = <<>> THEN <<>> ELSE NFKD(Head(text)) \o Normalize(Tail(text))

\* text.encode("ascii", "ignore").decode("ascii")
IsAscii(ch) == ch \notin {"e_acute", "fw_colon", "acute"}
AsciiOnly(text) == SelectSeq(text, IsAscii)

\* invalid_chars = r'<>:"/\|?*'; text.replace(char, "") for each
InvalidChars == {"<", ">", ":", "\"", "/", "\\", "|", "?", "*"}
RemoveInvalid(text) == SelectSeq(text, LAMBDA ch : ch \notin InvalidChars)

\* re.sub(r"\s+", " ", text)
Whitespace == {" ", "tab"}
RECURSIVE CollapseWhitespace(_)
CollapseWhitespace(text) ==
    IF text = <<>> THEN <<>>
    ELSE IF Head(text) \notin Whitespace
    THEN <<Head(text)>> \o CollapseWhitespace(Tail(text))
    ELSE IF Tail(text) # <<>> /\ Head(Tail(text)) \in Whitespace
    THEN CollapseWhitespace(Tail(text))
    ELSE <<" ">> \o CollapseWhitespace(Tail(text))

\* str.strip(chars)
RECURSIVE StripLeft(_, _)
StripLeft(text, chars) ==
    IF text # <<>> /\ Head(text) \in chars
    THEN StripLeft(Tail(text), chars) ELSE text
RECURSIVE StripRight(_, _)
StripRight(text, chars) ==
    IF text # <<>> /\ text[Len(text)] \in chars
    THEN StripRight(SubSeq(text, 1, Len(text) - 1), chars) ELSE text
Strip(text, chars) == StripRight(StripLeft(text, chars), chars)

\* s.rsplit(" ", 1)[0]: what comes before the last space, or all of s
RSplitHead(s) ==
    IF " " \notin SeqSet(s) THEN s
    ELSE LET last_space == CHOOSE i \in 1..Len(s) :
                 s[i] = " " /\ \A j \in (i + 1)..Len(s) : s[j] # " "
         IN  SubSeq(s, 1, last_space - 1)

\* (mutant) the text is not cut.
NoTruncate(text, max_len) == text

\* if len(text) > max_len: text = text[:max_len].rsplit(" ", 1)[0]
Truncate(text, max_len) ==
    IF Len(text) > max_len THEN RSplitHead(SubSeq(text, 1, max_len)) ELSE text

Untitled == <<"U", "n", "t", "i", "t", "l", "e", "d">>

clean_filename(text, max_len) ==
    LET normalized == AsciiOnly(Normalize(text))
        valid == RemoveInvalid(normalized)
        spaced == Strip(CollapseWhitespace(valid), Whitespace)
        stripped == Strip(spaced, {".", " "})
        cut == Truncate(stripped, max_len)
    IN  IF cut = <<>> THEN Untitled ELSE cut

CleanInit ==
    /\ content = SomeContent
    /\ Unstarted
    /\ \E text \in Texts, max_len \in 0..MaxBound :
         call = [fn |-> "clean_filename", text |-> text, max_len |-> max_len]
    /\ ret = NoCall

CallCleanFilename ==
    /\ ret = NoCall
    /\ ret' = [fn |-> "clean_filename",
               text |-> clean_filename(call.text, call.max_len)]
    /\ UNCHANGED <<persistent, volatile, history, call>>

CleanNext == CallCleanFilename

CleanSpec == CleanInit /\ [][CleanNext]_vars


\* ------------------------------------------- process_pdf on a reply, alone
\* A JSON object is the sequence of its <<key, value>> pairs, in order, keys
\* distinct.  A reply text is a fence and the JSON value written inside it.
MaxItems == 2       \* elements of a JSON list in a reply

Objects ==
    {<<>>, <<<<"name", "x">>>>, <<<<"provider", "x">>>>,
     <<<<"name", "x">>, <<"provider", "x">>>>,
     <<<<"provider", "x">>, <<"name", "x">>>>}
NotAnObject == <<<<"scalar">>>>
Elements == Objects \cup {NotAnObject}
JsonValues ==
    {[kind |-> "unparsable"], [kind |-> "scalar"]}
    \cup {[kind |-> "dict", obj |-> o] : o \in Objects}
    \cup {[kind |-> "list", items |-> l] :
             l \in UNION {[1..n -> Elements] : n \in 0..MaxItems}}
\* "none": the bare value; "json": ```json ... ```; "bare": ``` ... ```;
\* "tagged": ```<another language> ... ```
Fences == {"none", "json", "bare", "tagged"}
ReplyTexts ==
    {[fence |-> "none", value |-> [kind |-> "empty"]]}
    \cup {[fence |-> f, value |-> v] : f \in Fences, v \in JsonValues}

\* cleaned_text after the two split() branches, then json.loads: with
\* another tag than json the tag stays in front of the value.
Unfence(text) ==
    IF text.fence = "tagged" THEN [kind |-> "unparsable"] ELSE text.value

Keys(obj) == {obj[i][1] : i \in 1..Len(obj)}
Get(obj, key) == (CHOOSE i \in 1..Len(obj) : obj[i][1] = key)

\* d[key] = value on a dict: in place when the key is there, else at the end
Put(obj, pair) ==
    IF pair[1] \in Keys(obj)
    THEN [i \in 1..Len(obj) |-> IF obj[i][1] = pair[1] THEN pair ELSE obj[i]]
    ELSE Append(obj, pair)

\* {**first, **second}
RECURSIVE Merge(_, _)
Merge(first, second) ==
    IF second = <<>> THEN first
    ELSE Merge(Put(first, Head(second)), Tail(second))

\* (mutant) {**item, **metadata}
MetadataLast(metadata, item) == Merge(item, metadata)

\* item_with_meta = {**metadata, **item}
MetadataFirst(metadata, item) == Merge(metadata, item)

Metadata(pdf_name) ==
    <<<<"source_pdf", pdf_name>>, <<"extracted_at", "now">>,
      <<"provider", "gemini">>>>

\* process_pdf from "if not response_text" to "return materials": the error
\* raised, or the records returned.
ParseReply(text, pdf_name) ==
    LET value == Unfence(text)
        materials == IF value.kind = "list" THEN value.items
                     ELSE IF value.kind = "dict" THEN <<value.obj>>
                     ELSE <<>>
        failed == [error |-> "output", records |-> <<>>]
    IN  IF text.value.kind = "empty" THEN failed
        ELSE IF value.kind \in {"unparsable", "scalar"} THEN failed
        ELSE IF NotAnObject \in SeqSet(materials) THEN failed
        ELSE [error |-> "none",
              records |-> [i \in 1..Len(materials) |->
                              MetadataFirst(Metadata(pdf_name), materials[i])]]

\* The reply of the pipeline model a reply text stands for.
ShapeOf(text) ==
    LET value == Unfence(text)
    IN  CASE text.value.kind = "empty" -> [shape |-> "empty_text", n |-> 0]
          [] value.kind = "unparsable" -> [shape |-> "unparsable", n |-> 0]
          [] value.kind = "scalar"     -> [shape |-> "scalar", n |-> 0]
          [] value.kind = "dict"       -> [shape |-> "dict", n |-> 1]
          [] value.items = <<>>        -> [shape |-> "empty_list", n |-> 0]
          [] NotAnObject \in SeqSet(value.items) ->
                                          [shape |-> "nondict_list", n |-> 1]
          [] OTHER -> [shape |-> "list", n |-> Len(value.items)]

StampInit ==
    /\ content = SomeContent
    /\ Unstarted
    /\ \E text \in ReplyTexts :
         call = [fn |-> "process_pdf", pdf_name |-> RawName(1), text |-> text]
    /\ ret = NoCall

CallParseReply ==
    /\ ret = NoCall
    /\ LET out == ParseReply(call.text, call.pdf_name)
       IN  ret' = [fn |-> "process_pdf", error |-> out.error,
                   records |-> out.records]
    /\ UNCHANGED <<persistent, volatile, history, call>>

StampNext == CallParseReply

StampSpec == StampInit /\ [][StampNext]_vars


\* ------------------------------------- a document put in the folder later
\* The last document is not in the target folder at first: the user puts it
\* there, under its own name, before the last run.
Arrivals == {NumDocs}

ArrivalInit ==
    /\ content \in [Docs -> Contents]
    /\ UnstartedIn([d \in Docs |-> IF d \in Arrivals THEN "outside"
                                   ELSE "input"])
    /\ call = NoCall
    /\ ret = NoCall

PlaceDocument ==
    /\ pc \in EndPcs
    /\ runs = MaxRuns - 1
    /\ \E d \in Arrivals :
         /\ loc[d] = "outside"
         /\ loc' = [loc EXCEPT ![d] = "input"]
    /\ UNCHANGED <<call, ret, content, fname, ckptFile, outFiles, combined,
                   volatile, history>>

ArrivalNext == StartRun \/ Step \/ Crash \/ CrashInSave \/ PlaceDocument

ArrivalSpec == ArrivalInit /\ [][ArrivalNext]_vars


\* ================================================================ claims
Processed == SeqSet(ckptFile.processed)
SubmittedNames == [i \in 1..Len(submitted) |-> fname[submitted[i]]]

\* C1 (as claimed): a run started after a kill that came right after the
\* checkpoint write of the first document never submits that document again,
\* whatever its name and with the rename pass on in both runs or off in both.
C1_ResumeNeverResubmits ==
    (last.resume # 0 /\ rename_pdfs = last.rename)
    => last.resume \notin SeqSet(submitted)

C3_ProcessedNeverAttempted ==
    pc \notin EndPcs =>
        /\ \A n \in SeqSet(checkpoint.processed) : _is_processed(checkpoint, n)
        /\ \A i \in 1..Len(to_process) :
              (i > idx \/ (i = idx /\ pc # "move" /\ pc # "aggregate"))
              => to_process[i] \notin SeqSet(checkpoint.processed)

\* C3 witness: a document is being submitted while the folder holds a file
\* that discovery listed and left out because its name is in processed.
C3_Witness ==
    /\ pc = "poll"
    /\ \E n \in InputNames :
          /\ n \in SeqSet(checkpoint.processed)
          /\ n \notin SeqSet(to_process)

\* C4 (as claimed): while the process runs the checkpoint file equals the
\* in-memory checkpoint, and at any kill at most one name for which this run
\* got records is missing from the processed set on disk.
C4_PersistedAfterEveryEvent ==
    /\ pc \notin EndPcs => ckptFile = checkpoint
    /\ Cardinality({n \in extracted : n \notin Processed \/ ckptFile.torn}) <= 1

\* C5 (as claimed): every document whose turn is over is either in processed
\* or has a failure record of this run, never both and never neither, and a
\* failed one is still in the input folder.
C5_ProcessedOrFailed ==
    \A i \in 1..Len(submitted) :
        (i < Len(submitted) \/ pc \in {"upload", "aggregate", "done"})
        => LET d == submitted[i]
           IN  /\ (fname[d] \in Processed) # (d \in failedNow)
               /\ d \in failedNow => loc[d] = "input"

\* C6 (as claimed): however a run ends by itself, it has attempted every
\* candidate, in the sorted order of the candidate list.
C6_BatchNeverAborted ==
    pc \in {"done", "aborted"} => SubmittedNames = to_process

\* C7 (as claimed): when run() is over, every document it got records for is
\* in processed, also when writing its artifact failed.
C7_ArtifactFailureStillMarks ==
    pc \in {"done", "aborted"} => extracted \subseteq Processed

\* C8 (as claimed): every document that got a failure record in the previous
\* run (one that ran to its end) and is in the input folder at discovery is in
\* the filtered list, before the limit is applied.
C8_FailedIsRetried ==
    last.end = "done" => (last.failed \cap listed) \subseteq candDocs

\* C9 (as claimed): the polling loop is always left.
C9_PollingEnds ==
    (pc = "poll") ~> (pc # "poll")

\* C10 (as claimed): a failing release of the uploaded file after a
\* well-formed reply does not make the document fail.
C10_ReleaseIsBestEffort ==
    [][(pc = "delete" /\ ParseOutcome(reply).n > 0 /\ pc' # "crashed")
        => pc' = "parse"]_vars

\* C11 (as claimed): no step changes the name of a file that already carries
\* a name of the form "{doi} - {title}.pdf" or "NO_DOI - {title}.pdf": a later
\* rename pass skips it.
C11_RenamePassIsIdempotent ==
    [][\A d \in Docs :
          fname[d].form \in {"doi", "nodoi"} => fname'[d] = fname[d]]_vars

NoDuplicate(s) == \A i, j \in 1..Len(s) : s[i] = s[j] => i = j

\* C12: after every call on the store, processed holds no name twice and
\* stats has an entry for exactly the names in processed; a _mark_processed
\* call sets the entry of its name to its count, leaves the other entries
\* alone, and leaves processed as it was when the name is already in it.
C12_MarkProcessedIsIdempotent ==
    [][LET before == checkpoint.processed
           after == checkpoint'.processed
       IN  /\ NoDuplicate(after)
           /\ DOMAIN checkpoint'.stats = SeqSet(after)
           /\ call'.fn = "_mark_processed" =>
                /\ checkpoint'.stats[call'.pdf_name] = call'.arg
                /\ \A n \in SeqSet(before) \ {call'.pdf_name} :
                      checkpoint'.stats[n] = checkpoint.stats[n]
                /\ call'.pdf_name \in SeqSet(before) => after = before
                /\ call'.pdf_name \notin SeqSet(before) =>
                      after = Append(before, call'.pdf_name)
           /\ call'.fn = "_mark_failed" =>
                /\ after = before
                /\ checkpoint'.stats = checkpoint.stats]_vars

\* C12 witness: two calls were made, both _mark_processed (no failure record
\* exists) and both of one name: processed holds it once, stats its second
\* count.
C12_Witness ==
    /\ call.fn = "_mark_processed"
    /\ call.seq = 2
    /\ checkpoint.failed = <<>>
    /\ checkpoint.processed = <<call.pdf_name>>
    /\ call.arg = 2
    /\ checkpoint.stats[call.pdf_name] = 2

\* C13: every call leaves the failure records it found in their places and
\* unchanged; _mark_failed adds exactly one record after them, carrying its
\* name and error; _mark_processed adds none and removes none.
C13_FailedIsAppendOnly ==
    [][LET before == checkpoint.failed
           after == checkpoint'.failed
       IN  /\ Len(after) >= Len(before)
           /\ SubSeq(after, 1, Len(before)) = before
           /\ call'.fn = "_mark_failed" =>
                after = Append(before, [pdf |-> call'.pdf_name,
                                        error |-> call'.arg])
           /\ call'.fn = "_mark_processed" => after = before]_vars

\* C13 witness: a document has two failure records and has then been marked
\* processed; both records are still there.
C13_Witness ==
    /\ call.fn = "_mark_processed"
    /\ call.pdf_name \in SeqSet(checkpoint.processed)
    /\ \E i, j \in 1..Len(checkpoint.failed) :
          /\ i < j
          /\ checkpoint.failed[i].pdf = call.pdf_name
          /\ checkpoint.failed[j].pdf = call.pdf_name

\* The unprocessed names of this run's discovery, in sorted order.
SortedCandidates ==
    Sorted(CHOOSE l \in Listings({fname[d] : d \in candDocs}) : TRUE)
Min(a, b) == IF a < b THEN a ELSE b

\* C14 (as claimed): in a run given a limit k >= 0, the candidates of the loop
\* are the first min(k, number of unprocessed) unprocessed names in sorted
\* order, and never more than k documents are submitted.
C14_LimitCapsTheRun ==
    (/\ pc \notin EndPcs \cup {"rename", "discover"}
     /\ max_papers # <<>>
     /\ max_papers[1] >= 0)
    => /\ to_process = SubSeq(SortedCandidates, 1,
                              Min(max_papers[1], Len(SortedCandidates)))
       /\ Len(submitted) <= max_papers[1]

\* The scenario of C15 at the end of a run: two documents were submitted, one
\* got a result (yielded), the other a failure record, and no move raised.
TwoDocScenario ==
    /\ pc = "done"
    /\ Len(submitted) = 2
    /\ Len(yielded) = 1
    /\ Cardinality(failedNow) = 1
    /\ unmoved = {}

\* C15: at the end of such a run processed is exactly the name of the
\* document that got k records and stats has k for it, failed is exactly one
\* record, naming the other document, the combined artifact is exactly the k
\* records of the first, which is in processed_pdfs while the other is still
\* in the input folder; in either order of the two.
C15_TwoDocumentOutcome ==
    TwoDocScenario =>
        LET name == yielded[1][1]
            k == yielded[1][2]
            bad == CHOOSE d \in failedNow : TRUE
            good == CHOOSE d \in SeqSet(submitted) : d # bad
        IN  /\ fname[good] = name
            /\ ckptFile.processed = <<name>>
            /\ DOMAIN ckptFile.stats = {name}
            /\ ckptFile.stats[name] = k
            /\ Len(ckptFile.failed) = 1
            /\ ckptFile.failed[1].pdf = fname[bad]
            /\ Len(combined) = k
            /\ \A i \in 1..k : combined[i][1] = name
            /\ loc[good] = "processed"
            /\ loc[bad] = "input"

\* C15 witness: the document that sorts first failed on a call of the service
\* (a timeout), the second one got 3 records.
C15_Witness ==
    /\ TwoDocScenario
    /\ submitted[1] \in failedNow
    /\ ckptFile.failed[1].error = "service"
    /\ yielded[1][2] = 3
    /\ Len(combined) = 3

\* The records of a sequence of <<name, count>> results, in its order.
RECURSIVE RecordsOf(_)
RecordsOf(results) ==
    IF results = <<>> THEN <<>>
    ELSE Records(Head(results)[1], Head(results)[2]) \o RecordsOf(Tail(results))

\* The results of this run whose document has been marked processed.
ProcessedNow == SelectSeq(yielded, LAMBDA y : y[1] \in Processed)

\* C16 (as claimed): when run() is over, having returned or having been left
\* by the exception of a per-document artifact write, combined_data.json
\* holds exactly the records of the documents processed in this run, in
\* their order, and it is the file the run found when there are none.
C16_CombinedIsThisRun ==
    (\/ pc = "done"
     \/ pc = "aborted" /\ \E i \in 1..Len(yielded) : yielded[i][1] \notin Processed)
    => combined = IF ProcessedNow # <<>> THEN RecordsOf(ProcessedNow)
                  ELSE last.combined

\* C16, for a run() that returns: the same statement holds.
C16_CombinedWhenRunReturns ==
    pc = "done"
    => combined = IF ProcessedNow # <<>> THEN RecordsOf(ProcessedNow)
                  ELSE last.combined

\* C17: the path get_unique_path returns is not in the directory; it is the
\* candidate when the candidate is free; otherwise it is the candidate with
\* " (n)", n >= 2, where every " (m)" for 2 <= m < n is taken; and the
\* directory after the call is the directory before it.
C17_UniquePath ==
    ret # NoCall =>
        /\ ret.path \notin call.existing
        /\ call.path \notin call.existing => ret.path = call.path
        /\ call.path \in call.existing =>
             /\ ret.path.n >= 2
             /\ ret.path = [call.path EXCEPT !.n = ret.path.n]
             /\ \A m \in 2..(ret.path.n - 1) :
                   [call.path EXCEPT !.n = m] \in call.existing
        /\ ret.existing = call.existing

\* C17 witness: the candidate and its " (2)" exist, " (3)" does not, a
\* higher one may: " (3)" is returned.
C17_Witness ==
    /\ ret # NoCall
    /\ call.path \in call.existing
    /\ [call.path EXCEPT !.n = 2] \in call.existing
    /\ [call.path EXCEPT !.n = 3] \notin call.existing
    /\ ret.path = [call.path EXCEPT !.n = 3]

\* C18 (as claimed): whatever the text and max_len, the output has no
\* reserved character, is at most max_len long, and is not empty.
C18_CleanFilenameBounded ==
    ret # NoCall =>
        /\ SeqSet(ret.text) \cap InvalidChars = {}
        /\ Len(ret.text) <= call.max_len
        /\ ret.text # <<>>

\* C18 (amended): whatever the text and max_len, the output has no reserved
\* character, is not empty, and is at most max_len long unless it is the
\* placeholder "Untitled".
C18_CleanFilenameBoundedOrUntitled ==
    ret # NoCall =>
        /\ SeqSet(ret.text) \cap InvalidChars = {}
        /\ Len(ret.text) <= call.max_len \/ ret.text = Untitled
        /\ ret.text # <<>>

\* C18 witness: "a: a" with max_len 2 is "a a" when cleaned, one character
\* too long, and was cut at its space.
C18_Witness ==
    /\ ret # NoCall
    /\ call.text = <<"a", ":", " ", "a">>
    /\ call.max_len = 2
    /\ ret.text = <<"a">>

\* What process_pdf's except block and run() do after any error: a failure
\* record for the document, nothing added to the aggregate, no artifact, no
\* new name in processed, and the loop moves on.
FailsWithoutRecords ==
    /\ pc = "except" /\ pc' # "crashed"
    => /\ all_data' = all_data
       /\ outFiles' = outFiles
       /\ checkpoint'.processed = checkpoint.processed
       /\ checkpoint'.failed =
             Append(checkpoint.failed, [pdf |-> Current, error |-> err])
       /\ yielded' = yielded
       /\ pc' \in {"upload", "aggregate"}

\* C19 (as claimed): a reply that parses to a list, whatever it holds, gives
\* as many records as it has elements; a single object gives one record; an
\* unparsable reply raises an error on the output, and the document then
\* gets a failure record and nothing else.
C19_ReplyShapes ==
    [][/\ (pc = "parse" /\ pc' # "crashed") =>
            /\ reply.shape \in {"list", "nondict_list"} =>
                  pc' = "artifact" /\ data' = reply.n
            /\ reply.shape = "empty_list" => pc' # "except" /\ data' = 0
            /\ reply.shape = "dict" => pc' = "artifact" /\ data' = 1
            /\ reply.shape = "unparsable" =>
                  pc' = "except" /\ err' = "output" /\ data' = 0
       /\ FailsWithoutRecords]_vars

\* C19 (amended): as above for a list of objects; a list that holds an
\* element which is no object raises an error on the output like an
\* unparsable reply.
C19_ReplyShapesOfObjects ==
    [][/\ (pc = "parse" /\ pc' # "crashed") =>
            /\ reply.shape = "list" => pc' = "artifact" /\ data' = reply.n
            /\ reply.shape = "empty_list" => pc' # "except" /\ data' = 0
            /\ reply.shape = "dict" => pc' = "artifact" /\ data' = 1
            /\ reply.shape \in {"unparsable", "nondict_list"} =>
                  pc' = "except" /\ err' = "output" /\ data' = 0
       /\ FailsWithoutRecords]_vars

\* C19 witness: the first document's reply was a list of 3 objects, whose 3
\* records are the aggregate; the second document's reply did not parse and
\* its error is about to be recorded.
C19_Witness ==
    /\ pc = "except"
    /\ idx = 2
    /\ reply.shape = "unparsable"
    /\ err = "output"
    /\ Len(yielded) = 1
    /\ yielded[1][2] = 3
    /\ all_data = Records(yielded[1][1], 3)

\* The objects of the reply a call of process_pdf was given.
GivenItems ==
    IF call.text.value.kind = "list" THEN call.text.value.items
    ELSE <<call.text.value.obj>>

\* The pipeline model's outcome of a reply is the outcome of its text.
ParseOutcomeAgrees ==
    ret # NoCall =>
        ParseOutcome(ShapeOf(call.text)) =
            [error |-> ret.error, n |-> Len(ret.records)]

\* C20: process_pdf returns one record per object of the reply; the record
\* has every field of the object with the object's value, its first three
\* fields are source_pdf, extracted_at and provider, in that order, it has no
\* other field and no field twice, and a provenance field the object does not
\* have carries the provenance value.
C20_ProvenanceStamping ==
    (ret # NoCall /\ ret.error = "none") =>
        /\ Len(ret.records) = Len(GivenItems)
        /\ \A i \in 1..Len(ret.records) :
              LET record == ret.records[i]
                  item == GivenItems[i]
              IN  /\ \A j \in 1..Len(item) :
                        record[Get(record, item[j][1])] = item[j]
                  /\ Len(record) >= 3
                  /\ <<record[1][1], record[2][1], record[3][1]>> =
                        <<"source_pdf", "extracted_at", "provider">>
                  /\ record[1][2] = call.pdf_name
                  /\ "provider" \notin Keys(item) => record[3][2] = "gemini"
                  /\ Keys(record) =
                        Keys(item) \cup {"source_pdf", "extracted_at", "provider"}
                  /\ Len(record) = Cardinality(Keys(record))

\* C20 witness: an object whose first field is named provider came back with
\* the provenance fields in front and its own value of provider.
C20_Witness ==
    /\ ret # NoCall
    /\ ret.error = "none"
    /\ call.text.value.kind = "list"
    /\ Len(ret.records) = 2
    /\ GivenItems[2] = <<<<"provider", "x">>, <<"name", "x">>>>
    /\ ret.records[2] =
          <<<<"source_pdf", call.pdf_name>>, <<"extracted_at", "now">>,
            <<"provider", "x">>, <<"name", "x">>>>

\* C21: generate_content is called only from the polling loop's exit with
\* the file in the state ACTIVE, and only that call brings a reply; while the
\* file is PROCESSING the client stays in the loop unless get_file raises;
\* a file seen FAILED raises a service error and brings no reply.
C21_SubmissionStateMachine ==
    [][/\ (pc' = "generate" /\ pc # "generate") =>
            pc = "poll" /\ svc = "ACTIVE"
       /\ (reply' # reply /\ reply' # NoReply) =>
            pc = "generate" /\ svc = "ACTIVE"
       /\ (pc = "poll" /\ svc = "PROCESSING" /\ pc' # "crashed") =>
            /\ pc' \in {"poll", "except"}
            /\ pc' = "except" => err' = "service"
            /\ reply' = NoReply
       /\ (pc = "poll" /\ svc = "FAILED" /\ pc' # "crashed") =>
            /\ pc' = "except"
            /\ err' = "service"
            /\ reply' = NoReply]_vars

\* C21 witness: the file was polled while PROCESSING, was then seen ACTIVE,
\* and generate_content has returned a reply for it.
C21_Witness ==
    /\ pc = "delete"
    /\ svc = "ACTIVE"
    /\ waited = 1
    /\ reply.shape = "list"

\* C22: when the move of a processed document raises, the checkpoint in
\* memory and on disk stays as it is, with the document's name in processed
\* and its count in stats, no failure record is added, the file stays in the
\* input folder, and the loop goes to the next candidate or to its end.
C22_MoveFailureIsNotFatal ==
    [][(pc = "move" /\ unmoved' # unmoved) =>
          /\ checkpoint' = checkpoint
          /\ ckptFile' = ckptFile
          /\ Current \in SeqSet(ckptFile.processed)
          /\ ckptFile.stats[Current] = data
          /\ loc' = loc
          /\ loc[DocAt(Current)] = "input"
          /\ idx' = idx + 1
          /\ pc' = IF idx < Len(to_process) THEN "upload" ELSE "aggregate"
          /\ all_data' = all_data]_vars

\* C22 witness: the move of the first document raised; the run is at its
\* second candidate, the first is in processed, still in the input folder,
\* and there is no failure record.
C22_Witness ==
    /\ pc = "poll"
    /\ idx = 2
    /\ \E d \in Docs :
          unmoved = {d} /\ fname[d] = to_process[1] /\ loc[d] = "input"
    /\ to_process[1] \in SeqSet(ckptFile.processed)
    /\ ckptFile.failed = <<>>
    /\ all_data # <<>>

\* C23 (as claimed): in every state, kills included, the name of every
\* document in processed_pdfs is in the processed list of the checkpoint
\* file and its per-document artifact exists.
C23_MovedImpliesMarkedAndWritten ==
    \A d \in Docs :
        loc[d] = "processed" =>
            fname[d] \in Processed /\ fname[d] \in outFiles

\* C23, as long as no kill has come inside a checkpoint write: the same
\* statement holds.
C23_MovedImpliesMarkedUnlessTorn ==
    ~ckptFile.torn => C23_MovedImpliesMarkedAndWritten

\* C24: after every step each document is in the input folder or in
\* processed_pdfs, no two files of a folder carry one name, a rename gives a
\* file a name no file of the input folder has, and a move finds no file of
\* that name in processed_pdfs.
C24_NothingDeletedOrOverwritten ==
    [][/\ \A d \in Docs :
             loc[d] \in {"input", "processed"} =>
                loc'[d] \in {"input", "processed"}
       /\ \A d, e \in Docs :
             (d # e /\ loc'[d] = loc'[e]) => fname'[d] # fname'[e]
       /\ \A d \in Docs :
             fname'[d] # fname[d] =>
                /\ pc = "rename"
                /\ loc[d] = "input"
                /\ fname'[d] \notin InputNames
       /\ \A d \in Docs :
             (loc[d] # "outside" /\ loc'[d] # loc[d]) =>
                /\ pc = "move"
                /\ loc[d] = "input" /\ loc'[d] = "processed"
                /\ \A e \in Docs :
                      loc[e] = "processed" => fname[e] # fname[d]]_vars

\* C24 witness: two documents with the same title and no DOI were renamed, to
\* "NO_DOI - T.pdf" and "NO_DOI - T (2).pdf", and both were processed and
\* moved, in two runs.
C24_Witness ==
    /\ runs = 2
    /\ \A d \in Docs : loc[d] = "processed" /\ fname[d].form = "nodoi"
    /\ \E d, e \in Docs : fname[d].n = 1 /\ fname[e].n = 2

\* C25 (as claimed): in the run that follows the arrival of a document, the
\* rename pass gives that document no name that is in processed, and when
\* discovery lists it, it is in the filtered list (before the limit).
C25_NewDocumentIsCandidate ==
    [][\A d \in Arrivals :
          /\ (runs = MaxRuns /\ pc = "rename" /\ fname'[d] # fname[d]) =>
                fname'[d] \notin SeqSet(checkpoint.processed)
          /\ (runs = MaxRuns /\ pc = "discover" /\ d \in listed') =>
                d \in candDocs']_vars

====
